---- MODULE Spec2Model ----
(***************************************************************************)
(* A model of vold's KeyUtil.cpp: installing fscrypt keys into the kernel  *)
(* (FS_IOC_ADD_ENCRYPTION_KEY or the legacy session keyring), evicting     *)
(* them, the detached busy-file worker thread (waitForBusyFiles), the      *)
(* memoized capability probe and retrieveOrGenerateKey.                    *)
(***************************************************************************)
EXTENDS Integers, Sequences, FiniteSets, TLC

(***************************************************************************)
(* Bounds of the model.                                                    *)
(***************************************************************************)
\* Worker threads (waitForBusyFiles) that may be alive at the same time.
MaxReapers == 2
\* installKey / evictKey / isFsKeyringSupported calls made in one run.
MaxCalls == 3

(***************************************************************************)
(* Program constants.                                                      *)
(***************************************************************************)
FSCRYPT_KEY_DESCRIPTOR_SIZE == 8
FSCRYPT_KEY_IDENTIFIER_SIZE == 16
FSCRYPT_MAX_KEY_SIZE == 64
InitialWaitMs == 3200
MaxWaitMs == 51200

Callers == {"t1", "t2"}
Reapers == 1..MaxReapers
NoOwner == "none"

(***************************************************************************)
(* Data.  A KeyBuffer is its sequence of bytes.  kStd is a 64-byte key     *)
(* whose two halves differ; kHalf is its first half alone, a 32-byte key.  *)
(***************************************************************************)
kStd == [i \in 1..FSCRYPT_MAX_KEY_SIZE |-> IF 2 * i <= FSCRYPT_MAX_KEY_SIZE THEN 1 ELSE 2]
kHalf == SubSeq(kStd, 1, FSCRYPT_MAX_KEY_SIZE \div 2)

\* SHA-512 is modelled as an injective, symbolic function of its input.
SHA512(data) == <<"sha512", data>>

\* A std::string of raw bytes: its size and what the bytes are.
EmptyRef == [size |-> 0, of |-> <<>>]

\* std::string((char*)key_ref2, FSCRYPT_KEY_DESCRIPTOR_SIZE) of the double hash
\* of the first `length` bytes of key.
generateKeyRef(key, length) ==
    [size |-> FSCRYPT_KEY_DESCRIPTOR_SIZE,
     of |-> SHA512(SHA512(SubSeq(key, 1, length)))]

\* The 16-byte identifier the kernel computes from the raw key it is given.
KernelIdentifier(raw) ==
    [size |-> FSCRYPT_KEY_IDENTIFIER_SIZE, of |-> <<"hkdf", raw>>]

\* Two lower-case hex digits per byte of raw_ref.
keyrefstring(raw_ref) == [digits |-> 2 * raw_ref.size, hex |-> raw_ref.of]

NAME_PREFIXES == <<"ext4", "f2fs", "fscrypt">>

buildLegacyKeyName(prefix, raw_ref) == <<prefix, ":", keyrefstring(raw_ref)>>

fillKey(key) == Len(key) = FSCRYPT_MAX_KEY_SIZE

NoSpec == [type |-> "none", id |-> EmptyRef]

\* buildKeySpecifier without the tests of key_raw_ref.size().
buildKeySpecifierUnchecked(policy) ==
    CASE policy.options.version = 1 ->
            [ok |-> TRUE,
             spec |-> [type |-> "DESCRIPTOR", id |-> policy.key_raw_ref]]
      [] policy.options.version = 2 ->
            [ok |-> TRUE,
             spec |-> [type |-> "IDENTIFIER", id |-> policy.key_raw_ref]]
      [] OTHER -> [ok |-> FALSE, spec |-> [type |-> "none", id |-> EmptyRef]]

\* buildKeySpecifier: [ok, spec]; spec is untouched (NoSpec) on failure.
buildKeySpecifier(policy) ==
    CASE policy.options.version = 1 ->
            IF policy.key_raw_ref.size # FSCRYPT_KEY_DESCRIPTOR_SIZE
            THEN [ok |-> FALSE, spec |-> NoSpec]
            ELSE [ok |-> TRUE,
                  spec |-> [type |-> "DESCRIPTOR", id |-> policy.key_raw_ref]]
      [] policy.options.version = 2 ->
            IF policy.key_raw_ref.size # FSCRYPT_KEY_IDENTIFIER_SIZE
            THEN [ok |-> FALSE, spec |-> NoSpec]
            ELSE [ok |-> TRUE,
                  spec |-> [type |-> "IDENTIFIER", id |-> policy.key_raw_ref]]
      [] OTHER -> [ok |-> FALSE, spec |-> NoSpec]

\* isFsKeyringSupportedImpl, from the errno the probing ioctl leaves.
isFsKeyringSupportedImpl(errno) == errno # "ENOTTY"


(***************************************************************************)
(* Inputs of the calls.                                                    *)
(***************************************************************************)
\* "/data" is a directory of an fscrypt-capable filesystem; opening it fails
\* once that filesystem has been shut down (fsDown).
Mountpoints == {"/data"}
Dirs == {"/data"}
Versions == {1, 2, 3}
Keys == {kStd}

Options == [version : Versions, use_hw_wrapped_key : BOOLEAN]

InstallInputs ==
    [options : Options, key : Keys]
        \cup [options : {[version |-> 1, use_hw_wrapped_key |-> FALSE]},
              key : {kHalf}]

\* The key references a caller may hold: those installKey returns, and the
\* empty string of a policy that was never filled in.
RefInputs ==
    {generateKeyRef(k, Len(k)) : k \in Keys}
        \cup {generateKeyRef(k, Len(k) \div 2) : k \in Keys}
        \cup {KernelIdentifier(k) : k \in Keys}
        \cup {EmptyRef}

PolicyInputs ==
    [options : [version : Versions, use_hw_wrapped_key : {FALSE}],
     key_raw_ref : RefInputs]

(***************************************************************************)
(* State.                                                                  *)
(***************************************************************************)
VARIABLES
    \* ---- the kernel and the rest of the system
    kernelModern,   \* the kernel has FS_IOC_ADD_ENCRYPTION_KEY and friends
    fsDown,         \* mountpoints whose filesystem has been shut down
    kPresent,       \* <<mountpoint, specifier>>: key status PRESENT
    kIncomplete,    \* <<mountpoint, specifier>>: status INCOMPLETELY_REMOVED
    kBusy,          \* <<mountpoint, specifier>>: files are open under the key
    kOthers,        \* <<mountpoint, specifier>>: other users added the key too
    legacyRing,     \* the session keyring holds the "fscrypt" keyring
    legacyKeys,     \* names of the logon keys linked to the "fscrypt" keyring
    \* ---- KeyUtil.cpp's statics
    mutex,          \* fscrypt_keyring_mutex: its owner, or NoOwner
    guard,          \* initialization guard of isFsKeyringSupported's static
    supported,      \* isFsKeyringSupported's static bool
    probes,         \* how many times isFsKeyringSupportedImpl has run
    \* ---- the calling threads
    pc,             \* where each caller is
    args,           \* the arguments of the call a caller is in
    policy,         \* installKey's EncryptionPolicy* out-parameter
    kspec,          \* arg->key_spec / arg.key_spec of the call
    cap,            \* what isFsKeyringSupported() returned to the call
    ret,            \* the value the last call returned to the caller
    syscalls,       \* the kernel calls the current call has made, in order
    calls,          \* calls started so far
    \* ---- the detached worker threads
    reaper,
    \* ---- history
    lastInstall,    \* the mountpoint, the policy returned and the specifier
                    \* added by the latest successful FS_IOC_ADD_ENCRYPTION_KEY
                    \* of installKey, while no installKey, evictKey or worker
                    \* attempt has followed it
    \* ---- retrieveOrGenerateKey and its collaborators
    disk,           \* the keys stored at key_path: none or one
    kgPc,           \* where the caller of retrieveOrGenerateKey is
    kgArgs,         \* the KeyGeneration of the call
    kgKey,          \* the caller's KeyBuffer, *key
    kgRet,          \* the value returned
    kgLog,          \* the collaborator calls the call has made, in order
    kgCalls         \* calls started so far

vars == <<kernelModern, fsDown, kPresent, kIncomplete, kBusy, kOthers,
          legacyRing, legacyKeys, mutex, guard, supported, probes,
          pc, args, policy, kspec, cap, ret, syscalls, calls, reaper,
          lastInstall, disk, kgPc, kgArgs, kgKey, kgRet, kgLog, kgCalls>>

keyringVars == <<kernelModern, fsDown, kPresent, kIncomplete, kBusy, kOthers,
                 legacyRing, legacyKeys, mutex, guard, supported, probes,
                 pc, args, policy, kspec, cap, ret, syscalls, calls, reaper,
                 lastInstall>>
keygenVars == <<disk, kgPc, kgArgs, kgKey, kgRet, kgLog, kgCalls>>

kernelVars == <<kernelModern, fsDown, kPresent, kIncomplete, kBusy, kOthers,
                legacyRing, legacyKeys>>
modernVars == <<kPresent, kIncomplete, kBusy, kOthers>>
staticVars == <<guard, supported, probes>>
callerVars == <<pc, args, policy, kspec, cap, ret, syscalls, calls>>

NoArgs == [op |-> "none"]

\* A bool as a caller sees it returned ("none": nothing returned yet).
Bool(b) == IF b THEN "true" ELSE "false"
NoPolicy == [options |-> [version |-> 0, use_hw_wrapped_key |-> FALSE],
             key_raw_ref |-> EmptyRef]
NoInstall == [mountpoint |-> "none", policy |-> NoPolicy, spec |-> NoSpec]
NoReaper == [pc |-> "free"]

KeyringInit ==
    /\ kernelModern \in BOOLEAN
    /\ fsDown = {}
    /\ kPresent = {}
    /\ kIncomplete = {}
    /\ kBusy = {}
    /\ kOthers = {}
    \* init creates the "fscrypt" keyring; on a kernel without the ioctls the
    \* session keyring of the calling process may lack it.
    /\ legacyRing \in IF kernelModern THEN {TRUE} ELSE BOOLEAN
    /\ legacyKeys = {}
    /\ mutex = NoOwner
    /\ guard = "uninit"
    /\ supported = FALSE
    /\ probes = 0
    /\ pc = [t \in Callers |-> "idle"]
    /\ args = [t \in Callers |-> NoArgs]
    /\ policy = [t \in Callers |-> NoPolicy]
    /\ kspec = [t \in Callers |-> NoSpec]
    /\ cap = [t \in Callers |-> "none"]
    /\ ret = [t \in Callers |-> "none"]
    /\ syscalls = [t \in Callers |-> <<>>]
    /\ calls = 0
    /\ reaper = [r \in Reapers |-> NoReaper]
    /\ lastInstall = NoInstall

NoGen == [keysize |-> 0, allow_gen |-> FALSE, use_hw_wrapped_key |-> FALSE]

KeygenIdle ==
    /\ kgPc = "idle"
    /\ kgArgs = NoGen
    /\ kgKey = <<>>
    /\ kgRet = "none"
    /\ kgLog = <<>>
    /\ kgCalls = 0

Init ==
    /\ KeyringInit
    /\ disk = {}
    /\ KeygenIdle

(***************************************************************************)
(* The kernel, as the calls of KeyUtil.cpp see it.                         *)
(***************************************************************************)
\* open(mountpoint, O_RDONLY | O_DIRECTORY | O_CLOEXEC) returns a descriptor.
OpenOk(m) == m \in Dirs /\ m \notin fsDown

\* errno of an ioctl on an open descriptor of m that fails whatever the key.
IoctlErrno(m) ==
    IF m \in fsDown THEN "EIO"
    ELSE IF ~kernelModern THEN "ENOTTY"
    ELSE "OK"

\* FS_IOC_ADD_ENCRYPTION_KEY: [errno, spec (as the kernel leaves it),
\* present, incomplete].
KernelAddKey(m, spec, raw) ==
    LET out == IF spec.type = "IDENTIFIER"
               THEN [type |-> "IDENTIFIER", id |-> KernelIdentifier(raw)]
               ELSE spec
    IN  IF IoctlErrno(m) # "OK"
        THEN [errno |-> IoctlErrno(m), spec |-> spec,
              present |-> kPresent, incomplete |-> kIncomplete]
        ELSE [errno |-> "OK", spec |-> out,
              present |-> kPresent \cup {<<m, out>>},
              incomplete |-> kIncomplete \ {<<m, out>>}]

\* FS_IOC_REMOVE_ENCRYPTION_KEY: [errno, flags, present, incomplete].
KernelRemoveKey(m, spec) ==
    LET k == <<m, spec>>
        same == [present |-> kPresent, incomplete |-> kIncomplete]
    IN  IF IoctlErrno(m) # "OK"
        THEN [errno |-> IoctlErrno(m), flags |-> {}] @@ same
        ELSE IF k \notin kPresent \cup kIncomplete
        THEN [errno |-> "ENOKEY", flags |-> {}] @@ same
        ELSE IF k \in kOthers
        THEN [errno |-> "OK", flags |-> {"OTHER_USERS"}] @@ same
        ELSE IF k \in kBusy
        THEN [errno |-> "OK", flags |-> {"FILES_BUSY"},
              present |-> kPresent \ {k}, incomplete |-> kIncomplete \cup {k}]
        ELSE [errno |-> "OK", flags |-> {},
              present |-> kPresent \ {k}, incomplete |-> kIncomplete \ {k}]

\* FS_IOC_GET_ENCRYPTION_KEY_STATUS: [errno, status].
KernelKeyStatus(m, spec) ==
    LET k == <<m, spec>>
    IN  IF IoctlErrno(m) # "OK"
        THEN [errno |-> IoctlErrno(m), status |-> "none"]
        ELSE [errno |-> "OK",
              status |-> IF k \in kPresent THEN "PRESENT"
                         ELSE IF k \in kIncomplete THEN "INCOMPLETELY_REMOVED"
                         ELSE "ABSENT"]


(***************************************************************************)
(* The legacy session keyring adapter.                                     *)
(***************************************************************************)
\* The loop of installKeyLegacy from prefix i on.  nOk is how many add_key
\* calls the kernel lets succeed before it fails one (quota, memory).
RECURSIVE LegacyAddFrom(_, _, _, _, _)
LegacyAddFrom(i, raw_ref, nOk, keys, log) ==
    IF i > Len(NAME_PREFIXES)
    THEN [ok |-> TRUE, keys |-> keys, log |-> log]
    ELSE LET ref == buildLegacyKeyName(NAME_PREFIXES[i], raw_ref)
         IN  IF i > nOk
             THEN [ok |-> FALSE, keys |-> keys,
                   log |-> Append(log, [call |-> "add_key", name |-> ref,
                                        errno |-> "EDQUOT"])]
             ELSE LegacyAddFrom(i + 1, raw_ref, nOk, keys \cup {ref},
                                Append(log, [call |-> "add_key", name |-> ref,
                                             errno |-> "OK"]))

\* installKeyLegacy with "break" for "return false" in the loop.
installKeyLegacyBreak(key, raw_ref, nOk) ==
    IF ~fillKey(key)
    THEN [ok |-> FALSE, keys |-> legacyKeys, log |-> <<>>]
    ELSE IF ~legacyRing
    THEN [ok |-> FALSE, keys |-> legacyKeys,
          log |-> <<[call |-> "keyctl_search", name |-> "fscrypt",
                     errno |-> "ENOKEY"]>>]
    ELSE [LegacyAddFrom(1, raw_ref, nOk, legacyKeys,
                        <<[call |-> "keyctl_search", name |-> "fscrypt",
                           errno |-> "OK"]>>) EXCEPT !.ok = TRUE]

\* installKeyLegacy(key, raw_ref): [ok, keys, log].
installKeyLegacy(key, raw_ref, nOk) ==
    IF ~fillKey(key)
    THEN [ok |-> FALSE, keys |-> legacyKeys, log |-> <<>>]
    ELSE IF ~legacyRing
    THEN [ok |-> FALSE, keys |-> legacyKeys,
          log |-> <<[call |-> "keyctl_search", name |-> "fscrypt",
                     errno |-> "ENOKEY"]>>]
    ELSE LegacyAddFrom(1, raw_ref, nOk, legacyKeys,
                       <<[call |-> "keyctl_search", name |-> "fscrypt",
                          errno |-> "OK"]>>)

\* The loop of evictKeyLegacy from prefix i on.  An unlink fails when the
\* key was not found in the keyring, and for the prefixes in `denied`.
RECURSIVE LegacyUnlinkFrom(_, _, _, _, _, _)
LegacyUnlinkFrom(i, raw_ref, denied, keys, log, success) ==
    IF i > Len(NAME_PREFIXES)
    THEN [ok |-> success, keys |-> keys, log |-> log]
    ELSE LET ref == buildLegacyKeyName(NAME_PREFIXES[i], raw_ref)
             unlinked == ref \in keys /\ i \notin denied
         IN  LegacyUnlinkFrom(
                 i + 1, raw_ref, denied,
                 IF unlinked THEN keys \ {ref} ELSE keys,
                 Append(log, [call |-> "keyctl_unlink", name |-> ref,
                              errno |-> IF unlinked THEN "OK"
                                        ELSE IF ref \in keys THEN "EACCES"
                                        ELSE "EINVAL"]),
                 success /\ unlinked)

\* The loop of evictKeyLegacy with "return false" for "success = false".
RECURSIVE LegacyUnlinkUntilFailure(_, _, _, _, _)
LegacyUnlinkUntilFailure(i, raw_ref, denied, keys, log) ==
    IF i > Len(NAME_PREFIXES)
    THEN [ok |-> TRUE, keys |-> keys, log |-> log]
    ELSE LET ref == buildLegacyKeyName(NAME_PREFIXES[i], raw_ref)
             unlinked == ref \in keys /\ i \notin denied
             entry == [call |-> "keyctl_unlink", name |-> ref,
                       errno |-> IF unlinked THEN "OK"
                                 ELSE IF ref \in keys THEN "EACCES"
                                 ELSE "EINVAL"]
         IN  IF unlinked
             THEN LegacyUnlinkUntilFailure(i + 1, raw_ref, denied,
                                           keys \ {ref}, Append(log, entry))
             ELSE [ok |-> FALSE, keys |-> keys, log |-> Append(log, entry)]

evictKeyLegacyUntilFailure(raw_ref, denied) ==
    IF ~legacyRing
    THEN [ok |-> FALSE, keys |-> legacyKeys,
          log |-> <<[call |-> "keyctl_search", name |-> "fscrypt",
                     errno |-> "ENOKEY"]>>]
    ELSE LegacyUnlinkUntilFailure(1, raw_ref, denied, legacyKeys,
                                  <<[call |-> "keyctl_search",
                                     name |-> "fscrypt", errno |-> "OK"]>>)

\* evictKeyLegacy(raw_ref): [ok, keys, log].
evictKeyLegacy(raw_ref, denied) ==
    IF ~legacyRing
    THEN [ok |-> FALSE, keys |-> legacyKeys,
          log |-> <<[call |-> "keyctl_search", name |-> "fscrypt",
                     errno |-> "ENOKEY"]>>]
    ELSE LegacyUnlinkFrom(1, raw_ref, denied, legacyKeys,
                          <<[call |-> "keyctl_search", name |-> "fscrypt",
                             errno |-> "OK"]>>, TRUE)

(***************************************************************************)
(* fscrypt_keyring_mutex and the static of isFsKeyringSupported.           *)
(***************************************************************************)
\* A lock_guard on a mutex of the caller's own: it is always free.
CanLockUnshared(owner) == TRUE

\* std::lock_guard's constructor returns once the mutex is free.
CanLock(owner) == owner = NoOwner

\* A hand-written "if (!initialized)" test instead of the static's guard: a
\* thread that finds the initializer running runs it too.
NeedsInitUnguarded(g) == g # "done"

\* The guard of a function-local static: the initializer runs in the first
\* thread that finds it not yet started; the others wait while it runs.
NeedsInit(g) == g = "uninit"

CapPcs == {"inst_cap", "ev_cap", "sup_cap"}
ProbePcs == {"inst_probe", "ev_probe", "sup_probe"}
ProbePc(p) ==
    CASE p = "inst_cap" -> "inst_probe"
      [] p = "ev_cap" -> "ev_probe"
      [] p = "sup_cap" -> "sup_probe"
AfterCap(p) ==
    CASE p \in {"inst_cap", "inst_probe"} -> "inst_v1"
      [] p \in {"ev_cap", "ev_probe"} -> "ev_v1"
      [] p \in {"sup_cap", "sup_probe"} -> "sup_ret"

\* isFsKeyringSupported() when the static is initialized: return it.
CapCached(t) ==
    /\ UNCHANGED keygenVars
    /\ pc[t] \in CapPcs
    /\ guard = "done"
    /\ cap' = [cap EXCEPT ![t] = Bool(supported)]
    /\ pc' = [pc EXCEPT ![t] = AfterCap(pc[t])]
    /\ UNCHANGED <<kernelVars, mutex, staticVars, args, policy, kspec, ret,
                   syscalls, calls, reaper, lastInstall>>

\* isFsKeyringSupported() when the static is not initialized: this thread
\* enters isFsKeyringSupportedImpl.
ProbeStart(t) ==
    /\ UNCHANGED keygenVars
    /\ pc[t] \in CapPcs
    /\ NeedsInit(guard)
    /\ guard' = "running"
    /\ pc' = [pc EXCEPT ![t] = ProbePc(pc[t])]
    /\ UNCHANGED <<kernelVars, mutex, supported, probes, args, policy, kspec,
                   cap, ret, syscalls, calls, reaper, lastInstall>>

\* isFsKeyringSupportedImpl returns; the static is initialized with its value.
\* The ioctl on a descriptor of "/data" fails with EFAULT on a kernel that has
\* it and ENOTTY on one that has not; when open() failed it fails with EBADF.
ProbeFinish(t) ==
    /\ UNCHANGED keygenVars
    /\ pc[t] \in ProbePcs
    /\ \E fdOk \in BOOLEAN :
          LET errno == IF ~fdOk THEN "EBADF"
                       ELSE IF kernelModern THEN "EFAULT" ELSE "ENOTTY"
          IN  /\ supported' = isFsKeyringSupportedImpl(errno)
              /\ cap' = [cap EXCEPT ![t] = Bool(isFsKeyringSupportedImpl(errno))]
    /\ probes' = probes + 1
    /\ guard' = "done"
    /\ pc' = [pc EXCEPT ![t] = AfterCap(pc[t])]
    /\ UNCHANGED <<kernelVars, mutex, args, policy, kspec, ret, syscalls,
                   calls, reaper, lastInstall>>

\* A direct call of isFsKeyringSupported(); it takes no lock.
SupBegin(t) ==
    /\ UNCHANGED keygenVars
    /\ pc[t] = "idle"
    /\ calls < MaxCalls
    /\ calls' = calls + 1
    /\ pc' = [pc EXCEPT ![t] = "sup_cap"]
    /\ args' = [args EXCEPT ![t] = [op |-> "isFsKeyringSupported"]]
    /\ ret' = [ret EXCEPT ![t] = "none"]
    /\ UNCHANGED <<kernelVars, mutex, staticVars, policy, kspec, cap,
                   syscalls, reaper, lastInstall>>

SupReturn(t) ==
    /\ UNCHANGED keygenVars
    /\ pc[t] = "sup_ret"
    /\ ret' = [ret EXCEPT ![t] = "none"]
    /\ pc' = [pc EXCEPT ![t] = "idle"]
    /\ args' = [args EXCEPT ![t] = NoArgs]
    /\ cap' = [cap EXCEPT ![t] = "none"]
    /\ UNCHANGED <<kernelVars, mutex, staticVars, policy, kspec, syscalls,
                   calls, reaper, lastInstall>>


(***************************************************************************)
(* installKey.                                                             *)
(***************************************************************************)
\* The key reference installKey derives for a version-1 policy.
InstallKeyRef(options, key) ==
    IF options.use_hw_wrapped_key
    THEN generateKeyRef(key, Len(key) \div 2)
    ELSE generateKeyRef(key, Len(key))

\* The identifier the kernel computed is not copied into the policy.
InstalledRefNotCopied(spec, derived) == derived

\* The policy's key reference once FS_IOC_ADD_ENCRYPTION_KEY has succeeded.
InstalledRef(spec, derived) ==
    IF spec.type = "IDENTIFIER" THEN spec.id ELSE derived

\* installKey is entered: the lock is taken, policy->options is set and the
\* switch on options.version runs up to its first call out.
InstallBegin(t, m, options, key) ==
    /\ UNCHANGED keygenVars
    /\ pc[t] = "idle"
    /\ calls < MaxCalls
    /\ CanLock(mutex)
    /\ calls' = calls + 1
    /\ mutex' = t
    /\ args' = [args EXCEPT ![t] = [op |-> "installKey", mountpoint |-> m,
                                     options |-> options, key |-> key]]
    /\ syscalls' = [syscalls EXCEPT ![t] = <<>>]
    /\ cap' = [cap EXCEPT ![t] = "none"]
    /\ CASE options.version = 1 ->
              /\ policy' = [policy EXCEPT ![t] =
                               [options |-> options,
                                key_raw_ref |-> InstallKeyRef(options, key)]]
              /\ kspec' = [kspec EXCEPT ![t] = NoSpec]
              /\ pc' = [pc EXCEPT ![t] = "inst_cap"]
              /\ ret' = [ret EXCEPT ![t] = "none"]
         [] options.version = 2 ->
              /\ policy' = [policy EXCEPT ![t] =
                               [options |-> options, key_raw_ref |-> EmptyRef]]
              /\ kspec' = [kspec EXCEPT ![t] =
                              [type |-> "IDENTIFIER", id |-> EmptyRef]]
              /\ pc' = [pc EXCEPT ![t] = "inst_add"]
              /\ ret' = [ret EXCEPT ![t] = "none"]
         [] OTHER ->
              /\ policy' = [policy EXCEPT ![t] =
                               [options |-> options, key_raw_ref |-> EmptyRef]]
              /\ kspec' = [kspec EXCEPT ![t] = NoSpec]
              /\ pc' = [pc EXCEPT ![t] = "ret"]
              /\ ret' = [ret EXCEPT ![t] = "false"]
    /\ lastInstall' = NoInstall
    /\ UNCHANGED <<kernelVars, staticVars, reaper>>

\* case 1, !isFsKeyringSupported(): return installKeyLegacy(key, ref).
InstallV1Legacy(t) ==
    /\ UNCHANGED keygenVars
    /\ pc[t] = "inst_v1"
    /\ cap[t] = "false"
    /\ \E nOk \in 0..Len(NAME_PREFIXES) :
          LET r == installKeyLegacy(args[t].key, policy[t].key_raw_ref, nOk)
          IN  /\ legacyKeys' = r.keys
              /\ syscalls' = [syscalls EXCEPT ![t] = r.log]
              /\ ret' = [ret EXCEPT ![t] = Bool(r.ok)]
    /\ pc' = [pc EXCEPT ![t] = "ret"]
    /\ UNCHANGED <<kernelModern, fsDown, modernVars, legacyRing, mutex,
                   staticVars, args, policy, kspec, cap, calls, reaper,
                   lastInstall>>

\* case 1, isFsKeyringSupported(): buildKeySpecifier(&arg->key_spec, *policy).
InstallV1Modern(t) ==
    /\ UNCHANGED keygenVars
    /\ pc[t] = "inst_v1"
    /\ cap[t] = "true"
    /\ LET b == buildKeySpecifier(policy[t])
       IN  /\ kspec' = [kspec EXCEPT ![t] = b.spec]
           /\ pc' = [pc EXCEPT ![t] = IF b.ok THEN "inst_add" ELSE "ret"]
           /\ ret' = [ret EXCEPT ![t] = IF b.ok THEN "none" ELSE "false"]
    /\ UNCHANGED <<kernelVars, mutex, staticVars, args, policy, cap, syscalls,
                   calls, reaper, lastInstall>>

\* The rest of installKey: open the mountpoint, FS_IOC_ADD_ENCRYPTION_KEY, and
\* for an identifier-typed specifier take the identifier the kernel computed.
InstallAdd(t) ==
    /\ UNCHANGED keygenVars
    /\ pc[t] = "inst_add"
    /\ LET m == args[t].mountpoint
           r == KernelAddKey(m, kspec[t], args[t].key)
       IN  IF ~OpenOk(m)
           THEN /\ ret' = [ret EXCEPT ![t] = "false"]
                /\ UNCHANGED <<kPresent, kIncomplete, policy, kspec, syscalls,
                               lastInstall>>
           ELSE /\ syscalls' = [syscalls EXCEPT ![t] =
                                   Append(@, [call |-> "add", mountpoint |-> m,
                                              spec |-> r.spec,
                                              errno |-> r.errno])]
                /\ kPresent' = r.present
                /\ kIncomplete' = r.incomplete
                /\ IF r.errno # "OK"
                   THEN /\ ret' = [ret EXCEPT ![t] = "false"]
                        /\ UNCHANGED <<policy, kspec, lastInstall>>
                   ELSE /\ kspec' = [kspec EXCEPT ![t] = r.spec]
                        /\ policy' = [policy EXCEPT ![t].key_raw_ref =
                                         InstalledRef(r.spec, @)]
                        /\ lastInstall' =
                               [mountpoint |-> m,
                                policy |-> [policy[t] EXCEPT !.key_raw_ref =
                                               InstalledRef(r.spec, @)],
                                spec |-> r.spec]
                        /\ ret' = [ret EXCEPT ![t] = "true"]
    /\ pc' = [pc EXCEPT ![t] = "ret"]
    /\ UNCHANGED <<kernelModern, fsDown, kBusy, kOthers, legacyRing,
                   legacyKeys, mutex, staticVars, args, cap, calls, reaper>>


(***************************************************************************)
(* evictKey and the worker thread it may start.                            *)
(***************************************************************************)
FreeReapers == {r \in Reapers : reaper[r].pc \in {"free", "done"}}

\* std::thread busyFilesThread(waitForBusyFiles, key_spec, ref, mountpoint);
\* busyFilesThread.detach(): the thread owns copies of its arguments.
SpawnedReaper(key_spec, ref, m) ==
    [pc |-> "start", key_spec |-> key_spec, ref |-> ref, mountpoint |-> m,
     wait_time |-> 0, total_wait_time |-> 0, slept |-> <<>>]

\* The worker started whenever the key is not held by other users.
StartsReaperUnlessOthers(flags) == "OTHER_USERS" \notin flags

\* evictKey without the worker thread.
StartsReaperNever(flags) == FALSE

\* Whether evictKey starts the worker thread, from removal_status_flags.
StartsReaper(flags) ==
    "OTHER_USERS" \notin flags /\ "FILES_BUSY" \in flags

\* History: evictKey(m, pol) is called next after the installKey on m that
\* returned pol.
FollowsInstall(m, pol) ==
    /\ lastInstall.mountpoint = m
    /\ lastInstall.policy.options.version = pol.options.version
    /\ lastInstall.policy.key_raw_ref = pol.key_raw_ref

\* evictKey that asks isFsKeyringSupported() whatever the policy version.
EvictBeginAnyVersion(t, m, pol) ==
    /\ UNCHANGED keygenVars
    /\ pc[t] = "idle"
    /\ calls < MaxCalls
    /\ FreeReapers # {}
    /\ CanLock(mutex)
    /\ calls' = calls + 1
    /\ mutex' = t
    /\ args' = [args EXCEPT ![t] =
                    [op |-> "evictKey", mountpoint |-> m, policy |-> pol,
                     \* history: the call follows the installKey that
                     \* returned pol for m (and what specifier that added)
                     follows_install |-> FollowsInstall(m, pol),
                     installed_spec |-> IF FollowsInstall(m, pol)
                                        THEN lastInstall.spec ELSE NoSpec]]
    /\ syscalls' = [syscalls EXCEPT ![t] = <<>>]
    /\ cap' = [cap EXCEPT ![t] = "none"]
    /\ ret' = [ret EXCEPT ![t] = "none"]
    /\ pc' = [pc EXCEPT ![t] = "ev_cap"]
    /\ lastInstall' = NoInstall
    /\ UNCHANGED <<kernelVars, staticVars, policy, kspec, reaper>>

\* evictKey is entered: the lock is taken and the version is tested.
EvictBegin(t, m, pol) ==
    /\ UNCHANGED keygenVars
    /\ pc[t] = "idle"
    /\ calls < MaxCalls
    /\ FreeReapers # {}
    /\ CanLock(mutex)
    /\ calls' = calls + 1
    /\ mutex' = t
    /\ args' = [args EXCEPT ![t] =
                    [op |-> "evictKey", mountpoint |-> m, policy |-> pol,
                     \* history: the call follows the installKey that
                     \* returned pol for m (and what specifier that added)
                     follows_install |-> FollowsInstall(m, pol),
                     installed_spec |-> IF FollowsInstall(m, pol)
                                        THEN lastInstall.spec ELSE NoSpec]]
    /\ syscalls' = [syscalls EXCEPT ![t] = <<>>]
    /\ cap' = [cap EXCEPT ![t] = "none"]
    /\ ret' = [ret EXCEPT ![t] = "none"]
    /\ pc' = [pc EXCEPT ![t] = IF pol.options.version = 1
                               THEN "ev_cap" ELSE "ev_modern"]
    /\ lastInstall' = NoInstall
    /\ UNCHANGED <<kernelVars, staticVars, policy, kspec, reaper>>

\* version == 1 && !isFsKeyringSupported(): return evictKeyLegacy(ref).
EvictV1Legacy(t) ==
    /\ UNCHANGED keygenVars
    /\ pc[t] = "ev_v1"
    /\ cap[t] = "false"
    /\ \E denied \in SUBSET (1..Len(NAME_PREFIXES)) :
          LET r == evictKeyLegacy(args[t].policy.key_raw_ref, denied)
          IN  /\ legacyKeys' = r.keys
              /\ syscalls' = [syscalls EXCEPT ![t] = r.log]
              /\ ret' = [ret EXCEPT ![t] = Bool(r.ok)]
    /\ pc' = [pc EXCEPT ![t] = "ret"]
    /\ UNCHANGED <<kernelModern, fsDown, modernVars, legacyRing, mutex,
                   staticVars, args, policy, kspec, cap, calls, reaper,
                   lastInstall>>

\* version == 1 && isFsKeyringSupported(): go on to the ioctl path.
EvictV1Modern(t) ==
    /\ UNCHANGED keygenVars
    /\ pc[t] = "ev_v1"
    /\ cap[t] = "true"
    /\ pc' = [pc EXCEPT ![t] = "ev_modern"]
    /\ UNCHANGED <<kernelVars, mutex, staticVars, args, policy, kspec, cap,
                   ret, syscalls, calls, reaper, lastInstall>>

\* The rest of evictKey: open the mountpoint, build the specifier,
\* FS_IOC_REMOVE_ENCRYPTION_KEY, and start the worker when files are busy.
EvictModern(t) ==
    /\ UNCHANGED keygenVars
    /\ pc[t] = "ev_modern"
    /\ LET m == args[t].mountpoint
           b == buildKeySpecifier(args[t].policy)
           r == KernelRemoveKey(m, b.spec)
           ref == keyrefstring(args[t].policy.key_raw_ref)
       IN  IF ~OpenOk(m) \/ ~b.ok
           THEN /\ ret' = [ret EXCEPT ![t] = "false"]
                /\ UNCHANGED <<kPresent, kIncomplete, kspec, syscalls, reaper>>
           ELSE /\ kspec' = [kspec EXCEPT ![t] = b.spec]
                /\ syscalls' = [syscalls EXCEPT ![t] =
                                   Append(@, [call |-> "remove",
                                              mountpoint |-> m,
                                              spec |-> b.spec,
                                              errno |-> r.errno,
                                              flags |-> r.flags])]
                /\ kPresent' = r.present
                /\ kIncomplete' = r.incomplete
                /\ ret' = [ret EXCEPT ![t] = Bool(r.errno = "OK")]
                /\ IF r.errno = "OK" /\ StartsReaper(r.flags)
                   THEN \E n \in FreeReapers :
                           /\ \A o \in FreeReapers : n <= o
                           /\ reaper' = [reaper EXCEPT ![n] =
                                            SpawnedReaper(b.spec, ref, m)]
                   ELSE UNCHANGED reaper
    /\ pc' = [pc EXCEPT ![t] = "ret"]
    /\ UNCHANGED <<kernelModern, fsDown, kBusy, kOthers, legacyRing,
                   legacyKeys, mutex, staticVars, args, policy, cap, calls,
                   lastInstall>>

\* busyFilesThread.join() for detach(): the call returns only when no worker
\* is alive.
ReturnAfterJoin(t) ==
    /\ UNCHANGED keygenVars
    /\ pc[t] = "ret"
    /\ \A r \in Reapers : reaper[r].pc \in {"free", "done"}
    /\ mutex' = NoOwner
    /\ pc' = [pc EXCEPT ![t] = "idle"]
    /\ args' = [args EXCEPT ![t] = NoArgs]
    /\ policy' = [policy EXCEPT ![t] = NoPolicy]
    /\ kspec' = [kspec EXCEPT ![t] = NoSpec]
    /\ cap' = [cap EXCEPT ![t] = "none"]
    /\ syscalls' = [syscalls EXCEPT ![t] = <<>>]
    /\ ret' = [ret EXCEPT ![t] = "none"]
    /\ UNCHANGED <<kernelVars, staticVars, calls, reaper, lastInstall>>

\* A return path that leaves the mutex locked when the call failed.
ReturnLocksOnFailure(t) ==
    /\ UNCHANGED keygenVars
    /\ pc[t] = "ret"
    /\ mutex' = IF ret[t] = "false" THEN mutex ELSE NoOwner
    /\ pc' = [pc EXCEPT ![t] = "idle"]
    /\ args' = [args EXCEPT ![t] = NoArgs]
    /\ policy' = [policy EXCEPT ![t] = NoPolicy]
    /\ kspec' = [kspec EXCEPT ![t] = NoSpec]
    /\ cap' = [cap EXCEPT ![t] = "none"]
    /\ syscalls' = [syscalls EXCEPT ![t] = <<>>]
    /\ ret' = [ret EXCEPT ![t] = "none"]
    /\ UNCHANGED <<kernelVars, staticVars, calls, reaper, lastInstall>>

\* installKey or evictKey returns: the lock_guard releases the mutex.
Return(t) ==
    /\ UNCHANGED keygenVars
    /\ pc[t] = "ret"
    /\ mutex' = NoOwner
    /\ pc' = [pc EXCEPT ![t] = "idle"]
    /\ args' = [args EXCEPT ![t] = NoArgs]
    /\ policy' = [policy EXCEPT ![t] = NoPolicy]
    /\ kspec' = [kspec EXCEPT ![t] = NoSpec]
    /\ cap' = [cap EXCEPT ![t] = "none"]
    /\ syscalls' = [syscalls EXCEPT ![t] = <<>>]
    /\ ret' = [ret EXCEPT ![t] = "none"]
    /\ UNCHANGED <<kernelVars, staticVars, calls, reaper, lastInstall>>


(***************************************************************************)
(* waitForBusyFiles, the detached worker thread.                           *)
(***************************************************************************)
ReaperOwner(r) == "reaper" \o ToString(r)

ReaperDone(outcome) == [pc |-> "done", outcome |-> outcome]

\* The loop condition with < for <=.
LoopConditionStrict(wait_time) == wait_time < MaxWaitMs

\* while (wait_time <= std::chrono::milliseconds(51200))
LoopCondition(wait_time) == wait_time <= MaxWaitMs

\* wait_time *= 2
NextWait(wait_time) == wait_time * 2

\* The thread ends whenever the files-busy flag is clear.
RemoveClearedUnlessBusy(flags) == "FILES_BUSY" \notin flags

\* Whether an attempt whose remove ioctl succeeded ends the thread.
RemoveCleared(flags) ==
    "OTHER_USERS" \notin flags /\ "FILES_BUSY" \notin flags

\* The thread starts: open the mountpoint, or log and return.
ReaperStart(r) ==
    /\ UNCHANGED keygenVars
    /\ reaper[r].pc = "start"
    /\ reaper' = [reaper EXCEPT ![r] =
                     IF OpenOk(reaper[r].mountpoint)
                     THEN [@ EXCEPT !.pc = "loop",
                                    !.wait_time = InitialWaitMs]
                     ELSE ReaperDone("open_failed")]
    /\ UNCHANGED <<kernelVars, mutex, staticVars, callerVars, lastInstall>>

\* The lock_guard declared before the sleep instead of after it.
ReaperSleepLocked(r) ==
    /\ UNCHANGED keygenVars
    /\ reaper[r].pc = "loop"
    /\ LoopCondition(reaper[r].wait_time)
    /\ CanLock(mutex)
    /\ mutex' = ReaperOwner(r)
    /\ reaper' = [reaper EXCEPT
                     ![r].pc = "sleeping",
                     ![r].total_wait_time = @ + reaper[r].wait_time,
                     ![r].slept = Append(@, reaper[r].wait_time)]
    /\ UNCHANGED <<kernelVars, staticVars, callerVars, lastInstall>>

\* The loop condition holds: total_wait_time += wait_time; sleep_for(wait_time).
ReaperSleep(r) ==
    /\ UNCHANGED keygenVars
    /\ reaper[r].pc = "loop"
    /\ LoopCondition(reaper[r].wait_time)
    /\ reaper' = [reaper EXCEPT
                     ![r].pc = "sleeping",
                     ![r].total_wait_time = @ + reaper[r].wait_time,
                     ![r].slept = Append(@, reaper[r].wait_time)]
    /\ UNCHANGED <<kernelVars, mutex, staticVars, callerVars, lastInstall>>

\* The loop condition fails and the thread starts over instead of returning.
ReaperStartsOver(r) ==
    /\ UNCHANGED keygenVars
    /\ reaper[r].pc = "loop"
    /\ ~LoopCondition(reaper[r].wait_time)
    /\ reaper' = [reaper EXCEPT ![r].wait_time = InitialWaitMs,
                                ![r].total_wait_time = 0,
                                ![r].slept = <<>>]
    /\ UNCHANGED <<kernelVars, mutex, staticVars, callerVars, lastInstall>>

\* The loop condition fails: log "never completed" and return.
ReaperGiveUp(r) ==
    /\ UNCHANGED keygenVars
    /\ reaper[r].pc = "loop"
    /\ ~LoopCondition(reaper[r].wait_time)
    /\ reaper' = [reaper EXCEPT ![r] = ReaperDone("never_completed")]
    /\ UNCHANGED <<kernelVars, mutex, staticVars, callerVars, lastInstall>>

\* The attempt goes on without taking the mutex.
ReaperLockSkipped(r) ==
    /\ UNCHANGED keygenVars
    /\ reaper[r].pc = "sleeping"
    /\ reaper' = [reaper EXCEPT ![r].pc = "locked"]
    /\ UNCHANGED <<kernelVars, mutex, staticVars, callerVars, lastInstall>>

\* The sleep is over and the lock_guard takes the mutex.
ReaperLock(r) ==
    /\ UNCHANGED keygenVars
    /\ reaper[r].pc = "sleeping"
    /\ CanLock(mutex)
    /\ mutex' = ReaperOwner(r)
    /\ reaper' = [reaper EXCEPT ![r].pc = "locked"]
    /\ UNCHANGED <<kernelVars, staticVars, callerVars, lastInstall>>

\* The attempt without the test of get_arg.status: any successful query is
\* followed by the remove.
ReaperStatusUntested(r) ==
    /\ UNCHANGED keygenVars
    /\ reaper[r].pc = "locked"
    /\ LET g == KernelKeyStatus(reaper[r].mountpoint, reaper[r].key_spec)
       IN  IF g.errno # "OK"
           THEN /\ reaper' = [reaper EXCEPT ![r] = ReaperDone("status_error")]
                /\ mutex' = NoOwner
           ELSE /\ reaper' = [reaper EXCEPT ![r].pc = "removing"]
                /\ UNCHANGED mutex
    /\ lastInstall' = NoInstall
    /\ UNCHANGED <<kernelVars, staticVars, callerVars>>

\* The attempt that goes on to the remove after a failed status query.
ReaperStatusUnchecked(r) ==
    /\ UNCHANGED keygenVars
    /\ reaper[r].pc = "locked"
    /\ LET g == KernelKeyStatus(reaper[r].mountpoint, reaper[r].key_spec)
       IN  IF g.errno = "OK" /\ g.status # "INCOMPLETELY_REMOVED"
           THEN /\ reaper' = [reaper EXCEPT ![r] = ReaperDone("status_changed")]
                /\ mutex' = NoOwner
           ELSE /\ reaper' = [reaper EXCEPT ![r].pc = "removing"]
                /\ UNCHANGED mutex
    /\ lastInstall' = NoInstall
    /\ UNCHANGED <<kernelVars, staticVars, callerVars>>

\* FS_IOC_GET_ENCRYPTION_KEY_STATUS; return (releasing the mutex) on an error
\* and when the status is not INCOMPLETELY_REMOVED.
ReaperStatus(r) ==
    /\ UNCHANGED keygenVars
    /\ reaper[r].pc = "locked"
    /\ LET g == KernelKeyStatus(reaper[r].mountpoint, reaper[r].key_spec)
       IN  IF g.errno # "OK"
           THEN /\ reaper' = [reaper EXCEPT ![r] = ReaperDone("status_error")]
                /\ mutex' = NoOwner
           ELSE IF g.status # "INCOMPLETELY_REMOVED"
           THEN /\ reaper' = [reaper EXCEPT ![r] = ReaperDone("status_changed")]
                /\ mutex' = NoOwner
           ELSE /\ reaper' = [reaper EXCEPT ![r].pc = "removing"]
                /\ UNCHANGED mutex
    /\ lastInstall' = NoInstall
    /\ UNCHANGED <<kernelVars, staticVars, callerVars>>

\* FS_IOC_REMOVE_ENCRYPTION_KEY; return on an error and when the files are no
\* longer busy, else double wait_time; the mutex is released either way.
ReaperRemove(r) ==
    /\ UNCHANGED keygenVars
    /\ reaper[r].pc = "removing"
    /\ LET x == KernelRemoveKey(reaper[r].mountpoint, reaper[r].key_spec)
       IN  /\ kPresent' = x.present
           /\ kIncomplete' = x.incomplete
           /\ reaper' = [reaper EXCEPT ![r] =
                            IF x.errno # "OK" THEN ReaperDone("remove_error")
                            ELSE IF RemoveCleared(x.flags)
                            THEN ReaperDone("cleared")
                            ELSE [@ EXCEPT !.pc = "loop",
                                           !.wait_time = NextWait(@)]]
    /\ mutex' = NoOwner
    /\ lastInstall' = NoInstall
    /\ UNCHANGED <<kernelModern, fsDown, kBusy, kOthers, legacyRing,
                   legacyKeys, staticVars, callerVars>>

(***************************************************************************)
(* The rest of the system.                                                 *)
(***************************************************************************)
\* A process opens a file that is encrypted with a key that is present.
FilesOpened(k) ==
    /\ UNCHANGED keygenVars
    /\ k \in kPresent \ kBusy
    /\ kBusy' = kBusy \cup {k}
    /\ UNCHANGED <<kernelModern, fsDown, kPresent, kIncomplete, kOthers,
                   legacyRing, legacyKeys, mutex, staticVars, callerVars,
                   reaper, lastInstall>>

\* The processes holding files of a key are gone.
FilesClosed(k) ==
    /\ UNCHANGED keygenVars
    /\ k \in kBusy
    /\ kBusy' = kBusy \ {k}
    /\ UNCHANGED <<kernelModern, fsDown, kPresent, kIncomplete, kOthers,
                   legacyRing, legacyKeys, mutex, staticVars, callerVars,
                   reaper, lastInstall>>

\* Another user adds a version-2 key that is in the keyring: the key is
\* present (again) and that user has a claim on it.
OtherUserAdds(k) ==
    /\ UNCHANGED keygenVars
    /\ k \in (kPresent \cup kIncomplete) \ kOthers
    /\ k[2].type = "IDENTIFIER"
    /\ kOthers' = kOthers \cup {k}
    /\ kPresent' = kPresent \cup {k}
    /\ kIncomplete' = kIncomplete \ {k}
    /\ UNCHANGED <<kernelModern, fsDown, kBusy, legacyRing, legacyKeys, mutex,
                   staticVars, callerVars, reaper, lastInstall>>

\* That user removes its claim.
OtherUserRemoves(k) ==
    /\ UNCHANGED keygenVars
    /\ k \in kOthers
    /\ kOthers' = kOthers \ {k}
    /\ UNCHANGED <<kernelModern, fsDown, kPresent, kIncomplete, kBusy,
                   legacyRing, legacyKeys, mutex, staticVars, callerVars,
                   reaper, lastInstall>>

\* The filesystem of a mountpoint is shut down: from now on open() and the
\* ioctls on it fail.
FsShutdown(m) ==
    /\ UNCHANGED keygenVars
    /\ m \in Dirs \ fsDown
    /\ fsDown' = fsDown \cup {m}
    /\ UNCHANGED <<kernelModern, modernVars, legacyRing, legacyKeys, mutex,
                   staticVars, callerVars, reaper, lastInstall>>

(***************************************************************************)
(* The specification.                                                      *)
(***************************************************************************)
CallerStep(t) ==
    \/ \E m \in Mountpoints, i \in InstallInputs :
          InstallBegin(t, m, i.options, i.key)
    \/ InstallV1Legacy(t)
    \/ InstallV1Modern(t)
    \/ InstallAdd(t)
    \/ \E m \in Mountpoints, p \in PolicyInputs : EvictBegin(t, m, p)
    \/ EvictV1Legacy(t)
    \/ EvictV1Modern(t)
    \/ EvictModern(t)
    \/ Return(t)
    \/ SupBegin(t)
    \/ SupReturn(t)
    \/ CapCached(t)
    \/ ProbeStart(t)
    \/ ProbeFinish(t)

ReaperStep(r) ==
    \/ ReaperStart(r)
    \/ ReaperSleep(r)
    \/ ReaperGiveUp(r)
    \/ ReaperLock(r)
    \/ ReaperStatus(r)
    \/ ReaperRemove(r)

EnvStep ==
    \/ \E k \in kPresent : FilesOpened(k)
    \/ \E k \in kBusy : FilesClosed(k)
    \/ \E k \in kPresent \cup kIncomplete : OtherUserAdds(k)
    \/ \E k \in kOthers : OtherUserRemoves(k)
    \/ \E m \in Dirs : FsShutdown(m)

Next ==
    \/ \E t \in Callers : CallerStep(t)
    \/ \E r \in Reapers : ReaperStep(r)
    \/ EnvStep

Spec == Init /\ [][Next]_vars

\* A caller that is inside a call runs on: every step but entering a call.
CallerRuns(t) ==
    \/ InstallV1Legacy(t)
    \/ InstallV1Modern(t)
    \/ InstallAdd(t)
    \/ EvictV1Legacy(t)
    \/ EvictV1Modern(t)
    \/ EvictModern(t)
    \/ Return(t)
    \/ SupReturn(t)
    \/ CapCached(t)
    \/ ProbeStart(t)
    \/ ProbeFinish(t)

\* Fair scheduling: a thread that can run does run, and a thread that waits
\* for the mutex gets it if the mutex is free again and again.
Fairness ==
    /\ \A t \in Callers : WF_vars(CallerRuns(t))
    /\ \A r \in Reapers : WF_vars(ReaperStep(r)) /\ SF_vars(ReaperLock(r))

SpecFair == Init /\ [][Next]_vars /\ Fairness

\* The system in which vold is the only user of the filesystem keyring: every
\* change of a key's status comes from installKey, evictKey or a worker.
EnvStepSole ==
    \/ \E k \in kPresent : FilesOpened(k)
    \/ \E k \in kBusy : FilesClosed(k)
    \/ \E m \in Dirs : FsShutdown(m)

NextSole ==
    \/ \E t \in Callers : CallerStep(t)
    \/ \E r \in Reapers : ReaperStep(r)
    \/ EnvStepSole

SpecSole == Init /\ [][NextSole]_vars

(***************************************************************************)
(* retrieveOrGenerateKey, generateStorageKey and randomKey.  The storage   *)
(* and key-generation collaborators (pathExists, retrieveKey,              *)
(* storeKeyAtomically, generateWrappedStorageKey, ReadRandomBytes) are     *)
(* defined outside KeyUtil.cpp; each call chooses its outcome.             *)
(***************************************************************************)
MaxKeyCalls == 2

KeySizes == {32, FSCRYPT_MAX_KEY_SIZE}
RandomBytes == {7, 9}
WrappedBytes == {5}

KeyGenerations ==
    [keysize : KeySizes, allow_gen : BOOLEAN, use_hw_wrapped_key : BOOLEAN]

\* neverGen(): a KeyGeneration that never allows generation.
neverGen == [keysize |-> 0, allow_gen |-> FALSE, use_hw_wrapped_key |-> FALSE]

CollaboratorCall(name, ok, key) == [call |-> name, ok |-> ok, key |-> key]

\* What ReadRandomBytes may do with a buffer of `size` bytes: fail, leaving
\* the zero-initialised buffer, or fill it.
ReadRandomBytes(size) ==
    {[ok |-> FALSE, bytes |-> [i \in 1..size |-> 0]]}
        \cup {[ok |-> TRUE, bytes |-> [i \in 1..size |-> b]] : b \in RandomBytes}

\* What the keymaster may do: fail, or produce a wrapped key blob.
WrappedKeyOutcomes ==
    {[ok |-> FALSE, bytes |-> <<>>]}
        \cup {[ok |-> TRUE, bytes |-> [i \in 1..FSCRYPT_MAX_KEY_SIZE |-> b]] :
                b \in WrappedBytes}

\* The outcomes of the collaborator that generateStorageKey(gen, ...) relies on.
GenOutcomes(gen) ==
    IF gen.use_hw_wrapped_key THEN WrappedKeyOutcomes
    ELSE ReadRandomBytes(gen.keysize)

\* randomKey(size, key): *key = KeyBuffer(size), then ReadRandomBytes.
randomKey(size, key, out) ==
    [ok  |-> out.ok,
     key |-> out.bytes,
     log |-> <<CollaboratorCall("ReadRandomBytes", out.ok, out.bytes)>>]

\* generateWrappedStorageKey(key): on success *key is the wrapped blob.
generateWrappedStorageKey(key, out) ==
    [ok  |-> out.ok,
     key |-> IF out.ok THEN out.bytes ELSE key,
     log |-> <<CollaboratorCall("generateWrappedStorageKey", out.ok, out.bytes)>>]

generateStorageKey(gen, key, out) ==
    IF ~gen.allow_gen THEN [ok |-> FALSE, key |-> key, log |-> <<>>]
    ELSE IF gen.use_hw_wrapped_key
         THEN IF gen.keysize # FSCRYPT_MAX_KEY_SIZE
              THEN [ok |-> FALSE, key |-> key, log |-> <<>>]
              ELSE generateWrappedStorageKey(key, out)
         ELSE randomKey(gen.keysize, key, out)

pathExists == disk # {}

\* retrieveKey(key_path, auth, key): on success *key is the stored key.
retrieveKey(key, ok) ==
    IF ok /\ disk # {}
    THEN [ok |-> TRUE, key |-> CHOOSE k \in disk : TRUE]
    ELSE [ok |-> FALSE, key |-> key]

\* storeKeyAtomically(key_path, tmp_path, auth, key): all or nothing.
storeKeyAtomically(key, ok) == IF ok THEN {key} ELSE disk

AfterPathExistsRegenerate(exists, gen) ==
    IF gen.allow_gen THEN "rg_generate"
    ELSE IF exists THEN "rg_retrieve"
    ELSE "rg_fail"

\* The branch retrieveOrGenerateKey takes after pathExists(key_path).
AfterPathExists(exists, gen) ==
    IF exists THEN "rg_retrieve"
    ELSE IF ~gen.allow_gen THEN "rg_fail"
    ELSE "rg_generate"

\* A caller enters retrieveOrGenerateKey with an empty KeyBuffer.
KgBegin(gen) ==
    /\ kgPc = "idle"
    /\ kgCalls < MaxKeyCalls
    /\ kgPc' = "rg_path"
    /\ kgArgs' = gen
    /\ kgKey' = <<>>
    /\ kgRet' = "none"
    /\ kgLog' = <<>>
    /\ kgCalls' = kgCalls + 1
    /\ UNCHANGED disk
    /\ UNCHANGED keyringVars

KgPathExists ==
    /\ kgPc = "rg_path"
    /\ LET nxt == AfterPathExists(pathExists, kgArgs) IN
        /\ kgPc' = IF nxt = "rg_fail" THEN "rg_ret" ELSE nxt
        /\ kgRet' = IF nxt = "rg_fail" THEN "false" ELSE kgRet
    /\ kgLog' = Append(kgLog, CollaboratorCall("pathExists", pathExists, <<>>))
    /\ UNCHANGED <<disk, kgArgs, kgKey, kgCalls>>
    /\ UNCHANGED keyringVars

KgRetrieve(ok) ==
    /\ kgPc = "rg_retrieve"
    /\ LET r == retrieveKey(kgKey, ok) IN
        /\ kgKey' = r.key
        /\ kgRet' = Bool(r.ok)
        /\ kgLog' = Append(kgLog, CollaboratorCall("retrieveKey", r.ok, r.key))
    /\ kgPc' = "rg_ret"
    /\ UNCHANGED <<disk, kgArgs, kgCalls>>
    /\ UNCHANGED keyringVars

KgGenerate(out) ==
    /\ kgPc = "rg_generate"
    /\ LET g == generateStorageKey(kgArgs, kgKey, out) IN
        /\ kgKey' = g.key
        /\ kgLog' = kgLog \o g.log
        /\ kgPc' = IF g.ok THEN "rg_store" ELSE "rg_ret"
        /\ kgRet' = IF g.ok THEN kgRet ELSE "false"
    /\ UNCHANGED <<disk, kgArgs, kgCalls>>
    /\ UNCHANGED keyringVars

KgStore(ok) ==
    /\ kgPc = "rg_store"
    /\ disk' = storeKeyAtomically(kgKey, ok)
    /\ kgLog' = Append(kgLog, CollaboratorCall("storeKeyAtomically", ok, kgKey))
    /\ kgRet' = Bool(ok)
    /\ kgPc' = "rg_ret"
    /\ UNCHANGED <<kgArgs, kgKey, kgCalls>>
    /\ UNCHANGED keyringVars

\* A caller calls generateStorageKey directly.
KgGenerateOnly(gen, out) ==
    /\ kgPc = "idle"
    /\ kgCalls < MaxKeyCalls
    /\ LET g == generateStorageKey(gen, <<>>, out) IN
        /\ kgKey' = g.key
        /\ kgLog' = g.log
        /\ kgRet' = Bool(g.ok)
    /\ kgArgs' = gen
    /\ kgPc' = "gs_ret"
    /\ kgCalls' = kgCalls + 1
    /\ UNCHANGED disk
    /\ UNCHANGED keyringVars

KgReturn ==
    /\ kgPc \in {"rg_ret", "gs_ret"}
    /\ kgPc' = "idle"
    /\ UNCHANGED <<disk, kgArgs, kgKey, kgRet, kgLog, kgCalls>>
    /\ UNCHANGED keyringVars

InitKeys ==
    /\ KeyringInit
    /\ kernelModern
    /\ disk \in {{}, {kStd}}
    /\ KeygenIdle

NextKeys ==
    \/ \E gen \in KeyGenerations : KgBegin(gen)
    \/ KgPathExists
    \/ \E ok \in BOOLEAN : KgRetrieve(ok)
    \/ \E out \in GenOutcomes(kgArgs) : KgGenerate(out)
    \/ \E ok \in BOOLEAN : KgStore(ok)
    \/ \E gen \in KeyGenerations \cup {neverGen} :
            \E out \in GenOutcomes(gen) : KgGenerateOnly(gen, out)
    \/ KgReturn

SpecKeys == InitKeys /\ [][NextKeys]_vars


(***************************************************************************)
(* Properties.                                                             *)
(***************************************************************************)
\* The callers that are inside installKey or evictKey, between taking the
\* mutex and returning.
CallersInside == {t \in Callers : pc[t] \notin {"idle", "sup_cap", "sup_probe", "sup_ret"}}

\* The workers that are inside the locked part of an attempt.
ReapersInside == {r \in Reapers : reaper[r].pc \in {"locked", "removing"}}

\* The workers that are alive (started and not yet returned).
ReapersAlive == {r \in Reapers : reaper[r].pc \notin {"free", "done"}}

LastCall(t) == syscalls[t][Len(syscalls[t])]

\* C1: every thread that is inside installKey, inside evictKey or inside the
\* locked part of a worker attempt owns fscrypt_keyring_mutex, so at most one
\* of them is in its kernel-call section at any time.
C1_MutualExclusion ==
    /\ \A t \in CallersInside : mutex = t
    /\ \A r \in ReapersInside : mutex = ReaperOwner(r)
    /\ Cardinality(CallersInside) + Cardinality(ReapersInside) <= 1

\* A worker is inside its locked attempt while a caller that is not inside
\* a call exists and a key is in the keyring.
C1_Witness ==
    /\ ReapersInside # {}
    /\ CallersInside = {}
    /\ kIncomplete # {}

Backoff == <<3200, 6400, 12800, 25600, 51200>>

C3_SleepsUnlocked ==
    \A r \in Reapers :
        reaper[r].pc \in {"start", "loop", "sleeping", "done", "free"} =>
            mutex # ReaperOwner(r)

\* A worker sleeps while a caller is inside evictKey or installKey, holding
\* the mutex, and that caller is about to return.
C3_Witness ==
    \E r \in Reapers, t \in Callers :
        /\ reaper[r].pc = "sleeping"
        /\ pc[t] = "ret"
        /\ mutex = t

\* C4: a worker thread comes into being only in the step of evictKey that
\* issues FS_IOC_REMOVE_ENCRYPTION_KEY (the ioctl path), when that ioctl
\* succeeded with the files-busy flag and evictKey returns true; the worker
\* is given the specifier and mountpoint of that remove.
C4_SpawnOnlyOnBusy ==
    [][\A r \in Reapers :
          (reaper'[r].pc = "start" /\ reaper'[r] # reaper[r]) =>
              \E t \in Callers :
                  /\ args[t].op = "evictKey"
                  /\ pc[t] = "ev_modern"
                  /\ pc'[t] = "ret"
                  /\ ret'[t] = "true"
                  /\ Len(syscalls'[t]) = 1
                  /\ syscalls'[t][1].call = "remove"
                  /\ syscalls'[t][1].errno = "OK"
                  /\ "FILES_BUSY" \in syscalls'[t][1].flags
                  /\ reaper'[r].key_spec = syscalls'[t][1].spec
                  /\ reaper'[r].mountpoint = args[t].mountpoint]_vars

\* evictKey is about to return true after a remove that reported busy files,
\* and the worker it started has not run yet.
C4_Witness ==
    \E r \in Reapers, t \in Callers :
        /\ reaper[r].pc = "start"
        /\ pc[t] = "ret"
        /\ args[t].op = "evictKey"
        /\ ret[t] = "true"
        /\ "FILES_BUSY" \in LastCall(t).flags
        /\ reaper[r].key_spec = LastCall(t).spec


\* C5: when evictKey(m, P) is the call that follows a successful installKey
\* on m (through FS_IOC_ADD_ENCRYPTION_KEY, policy version 1 or 2) that
\* returned P, with no installKey, evictKey or worker attempt in between, and
\* the filesystem of m is still up, it returns true after one remove ioctl
\* that succeeded on the very specifier the install added.
C5_RoundTrip ==
    \A t \in Callers :
        (/\ pc[t] = "ret"
         /\ args[t].op = "evictKey"
         /\ args[t].follows_install
         /\ args[t].mountpoint \notin fsDown) =>
            /\ ret[t] = "true"
            /\ Len(syscalls[t]) = 1
            /\ syscalls[t][1].call = "remove"
            /\ syscalls[t][1].errno = "OK"
            /\ syscalls[t][1].spec = args[t].installed_spec

\* evictKey returns true for the version-2 policy the preceding installKey
\* returned, whose key reference is the identifier the kernel computed.
C5_Witness ==
    \E t \in Callers :
        /\ pc[t] = "ret"
        /\ args[t].op = "evictKey"
        /\ args[t].follows_install
        /\ args[t].policy.options.version = 2
        /\ args[t].policy.key_raw_ref = KernelIdentifier(kStd)
        /\ ret[t] = "true"

\* C6: isFsKeyringSupportedImpl runs at most once, and every call of
\* isFsKeyringSupported (direct, from installKey or from evictKey) that has
\* returned got the value that one run stored in the static.
C6_ProbeOnce ==
    /\ probes <= 1
    /\ guard = "done" <=> probes = 1
    /\ \A t \in Callers :
          cap[t] # "none" => probes = 1 /\ cap[t] = Bool(supported)

\* Two threads make the first call at the same time: one is inside
\* isFsKeyringSupportedImpl, the other waits for the static.
C6_Witness ==
    \E t, u \in Callers :
        /\ t # u
        /\ pc[t] \in ProbePcs
        /\ pc[u] \in CapPcs
        /\ guard = "running"

AddKeyCall(e) == e.call = "add_key"
AddKeyOk(e) == e.call = "add_key" /\ e.errno = "OK"
UnlinkCall(e) == e.call = "keyctl_unlink"

\* C7: an installKey that went through installKeyLegacy made its add_key
\* calls for "ext4", "f2fs", "fscrypt" in that order, at most one per
\* prefix and none after one that failed; it returns true exactly when three
\* add_key calls succeeded, and the names whose add_key succeeded are in the
\* keyring when it returns, also when it returns false.
C7_LegacyInstall ==
    \A t \in Callers :
        (pc[t] = "ret" /\ args[t].op = "installKey" /\ cap[t] = "false") =>
            LET adds == SelectSeq(syscalls[t], AddKeyCall)
                oks == SelectSeq(syscalls[t], AddKeyOk)
            IN  /\ Len(adds) <= Len(NAME_PREFIXES)
                /\ \A i \in 1..Len(adds) :
                      /\ adds[i].name = buildLegacyKeyName(
                             NAME_PREFIXES[i], policy[t].key_raw_ref)
                      /\ adds[i].errno # "OK" => i = Len(adds)
                      /\ adds[i].errno = "OK" => adds[i].name \in legacyKeys
                /\ ret[t] = "true" <=> Len(oks) = Len(NAME_PREFIXES)

\* installKeyLegacy returns false after the third add_key failed; the first
\* two aliases are in the keyring.
C7_Witness ==
    \E t \in Callers :
        /\ pc[t] = "ret"
        /\ args[t].op = "installKey"
        /\ cap[t] = "false"
        /\ ret[t] = "false"
        /\ Len(SelectSeq(syscalls[t], AddKeyOk)) = 2
        /\ buildLegacyKeyName("ext4", policy[t].key_raw_ref) \in legacyKeys
        /\ buildLegacyKeyName("f2fs", policy[t].key_raw_ref) \in legacyKeys
        /\ buildLegacyKeyName("fscrypt", policy[t].key_raw_ref) \notin legacyKeys

\* C8: an evictKey that went through evictKeyLegacy and found the keyring
\* made one keyctl_unlink call per prefix, "ext4", "f2fs", "fscrypt" in that
\* order, whatever the earlier ones returned, and it returns true exactly
\* when all three succeeded.
C8_LegacyEvict ==
    \A t \in Callers :
        (/\ pc[t] = "ret"
         /\ args[t].op = "evictKey"
         /\ cap[t] = "false"
         /\ syscalls[t][1].errno = "OK") =>
            LET unl == SelectSeq(syscalls[t], UnlinkCall)
            IN  /\ Len(unl) = Len(NAME_PREFIXES)
                /\ \A i \in 1..Len(unl) :
                      unl[i].name = buildLegacyKeyName(
                          NAME_PREFIXES[i], args[t].policy.key_raw_ref)
                /\ ret[t] = "true" <=> \A i \in 1..Len(unl) : unl[i].errno = "OK"

\* evictKeyLegacy returns false: the first unlink failed and the third one,
\* made all the same, succeeded.
C8_Witness ==
    \E t \in Callers :
        /\ pc[t] = "ret"
        /\ args[t].op = "evictKey"
        /\ cap[t] = "false"
        /\ ret[t] = "false"
        /\ Len(syscalls[t]) = 4
        /\ syscalls[t][2].errno # "OK"
        /\ syscalls[t][4].errno = "OK"

\* C9: an evictKey whose remove ioctl succeeded with the files-busy flag has
\* started a worker, has the result true and can return at once, whatever
\* the worker is doing; and no step of a worker changes anything of a
\* caller (its position, its arguments, its result).
C9_EvictDoesNotWait ==
    /\ [](\A t \in Callers :
             (/\ pc[t] = "ret"
              /\ args[t].op = "evictKey"
              /\ Len(syscalls[t]) = 1
              /\ syscalls[t][1].call = "remove"
              /\ syscalls[t][1].errno = "OK"
              /\ "FILES_BUSY" \in syscalls[t][1].flags) =>
                 /\ ret[t] = "true"
                 /\ ENABLED Return(t))
    /\ [][\A t \in Callers :
             (/\ pc[t] = "ev_modern"
              /\ pc'[t] = "ret"
              /\ Len(syscalls'[t]) = 1
              /\ syscalls'[t][1].errno = "OK"
              /\ "FILES_BUSY" \in syscalls'[t][1].flags) =>
                 \E r \in Reapers :
                    /\ reaper[r].pc \in {"free", "done"}
                    /\ reaper'[r].pc = "start"
                    /\ reaper'[r].key_spec = syscalls'[t][1].spec]_vars
    /\ [][(\E r \in Reapers :
              reaper[r].pc \notin {"free", "done"} /\ reaper'[r] # reaper[r])
             => UNCHANGED callerVars]_vars

\* evictKey has returned and its caller is idle while the worker it started
\* is still asleep in its first attempt.
C9_Witness ==
    /\ \A t \in Callers : pc[t] = "idle"
    /\ \E r \in Reapers : reaper[r].pc = "sleeping" /\ Len(reaper[r].slept) = 1

KgRest == Tail(kgLog)
KgExisted == kgLog[1].ok
KgGenerators == {"ReadRandomBytes", "generateWrappedStorageKey"}
KgStoredFresh ==
    /\ Len(KgRest) = 2
    /\ KgRest[1].call \in KgGenerators /\ KgRest[1].ok
    /\ KgRest[2].call = "storeKeyAtomically" /\ KgRest[2].ok
    /\ KgRest[2].key = KgRest[1].key

\* C10: when retrieveOrGenerateKey returns, (a) if a key existed at key_path
\* the only collaborator used after pathExists is retrieveKey, the result is
\* exactly what retrieveKey returned and the caller's key is the retrieved
\* one; (b) if no key existed and generation is allowed, nothing is
\* retrieved, a successful generation is followed by storing exactly the
\* generated key, and the call succeeds exactly when a freshly generated key
\* was stored, in which case that key is returned and is what key_path
\* holds; (c) if no key existed and generation is not allowed, the call
\* fails, no generator and no store is called, and the caller's key and
\* key_path are untouched.
C10_RetrieveOrGenerate ==
    kgPc = "rg_ret" =>
        /\ kgLog # <<>> /\ kgLog[1].call = "pathExists"
        /\ KgExisted =>
            /\ Len(KgRest) = 1
            /\ KgRest[1].call = "retrieveKey"
            /\ kgRet = Bool(KgRest[1].ok)
            /\ KgRest[1].ok => kgKey = KgRest[1].key /\ disk = {kgKey}
        /\ (~KgExisted /\ kgArgs.allow_gen) =>
            /\ \A i \in 1..Len(KgRest) : KgRest[i].call # "retrieveKey"
            /\ (KgRest # <<>> /\ KgRest[1].ok) =>
                /\ Len(KgRest) = 2
                /\ KgRest[2].call = "storeKeyAtomically"
                /\ KgRest[2].key = KgRest[1].key
            /\ kgRet = Bool(KgStoredFresh)
            /\ KgStoredFresh => kgKey = KgRest[1].key /\ disk = {kgKey}
        /\ (~KgExisted /\ ~kgArgs.allow_gen) =>
            /\ KgRest = <<>>
            /\ kgRet = "false"
            /\ kgKey = <<>>
            /\ disk = {}

\* A second call finds and retrieves the key that the first call generated
\* and stored.
C10_Witness ==
    /\ kgPc = "rg_ret"
    /\ kgCalls = 2
    /\ KgExisted
    /\ kgRet = "true"
    /\ kgLog[2].call = "retrieveKey"
    /\ kgKey \in {[i \in 1..32 |-> b] : b \in RandomBytes}
    /\ disk = {kgKey}

C10_GeneratedAndStored ==
    /\ kgPc = "rg_ret"
    /\ ~KgExisted
    /\ kgArgs.allow_gen
    /\ kgRet = "true"
    /\ KgStoredFresh

C10_NotAllowed ==
    /\ kgPc = "rg_ret"
    /\ ~KgExisted
    /\ ~kgArgs.allow_gen
    /\ kgRet = "false"


KgGenerationFailed ==
    \/ KgRest = <<>>
    \/ KgRest[1].call \in KgGenerators /\ ~KgRest[1].ok
KgStoreFailed ==
    /\ Len(KgRest) = 2
    /\ KgRest[2].call = "storeKeyAtomically" /\ ~KgRest[2].ok
KgHoldsUnpersistedKey ==
    \E i \in 1..Len(KgRest) :
        /\ KgRest[i].call \in KgGenerators
        /\ KgRest[i].ok
        /\ kgKey = KgRest[i].key
        /\ kgKey \notin disk

\* C11: when no key existed at key_path, generation is allowed and either
\* generation or storeKeyAtomically failed, retrieveOrGenerateKey returns
\* false and the caller's KeyBuffer does not hold a generated key that was
\* never persisted.
C11_NoUnpersistedKey ==
    (/\ kgPc = "rg_ret"
     /\ ~KgExisted
     /\ kgArgs.allow_gen
     /\ KgGenerationFailed \/ KgStoreFailed) =>
        /\ kgRet = "false"
        /\ ~KgHoldsUnpersistedKey

\* The part of C11 the code keeps: the call fails as a whole and key_path
\* holds no key afterwards.
C11_FailsAsWhole ==
    (/\ kgPc = "rg_ret"
     /\ ~KgExisted
     /\ kgArgs.allow_gen
     /\ KgGenerationFailed \/ KgStoreFailed) =>
        /\ kgRet = "false"
        /\ disk = {}

\* storeKeyAtomically failed after ReadRandomBytes succeeded.
C11_Witness ==
    /\ kgPc = "rg_ret"
    /\ ~KgExisted
    /\ KgStoreFailed
    /\ KgRest[1].call = "ReadRandomBytes"
    /\ kgRet = "false"
    /\ KgHoldsUnpersistedKey


WellFormedPolicy(pol) ==
    \/ pol.options.version = 1 /\ pol.key_raw_ref.size = FSCRYPT_KEY_DESCRIPTOR_SIZE
    \/ pol.options.version = 2 /\ pol.key_raw_ref.size = FSCRYPT_KEY_IDENTIFIER_SIZE

\* An evictKey on the ioctl path whose mountpoint opens and whose policy
\* buildKeySpecifier rejects.
EvictHitsBadPolicy(t) ==
    /\ pc[t] = "ev_modern"
    /\ OpenOk(args[t].mountpoint)
    /\ ~WellFormedPolicy(args[t].policy)

C12_ReturnedPolicies ==
    \A t \in Callers :
        (pc[t] = "ret" /\ args[t].op = "installKey" /\ ret[t] = "true") =>
            /\ policy[t].options = args[t].options
            /\ WellFormedPolicy(policy[t])

C12_SpecifierNeedsLength ==
    \A pol \in PolicyInputs :
        buildKeySpecifier(pol).ok <=> WellFormedPolicy(pol)

C12_BadPolicyEvict ==
    \A t \in Callers :
        EvictHitsBadPolicy(t) /\ pc'[t] = "ret" =>
            /\ ret'[t] = "false"
            /\ syscalls'[t] = <<>>
            /\ reaper' = reaper
            /\ UNCHANGED modernVars

\* C12: a policy returned by a successful installKey has an 8-byte reference
\* for version 1 and a 16-byte reference for version 2; buildKeySpecifier
\* succeeds exactly for such policies (any other length and any other
\* version fails); and the evictKey step that hits this failure returns
\* false, issues no FS_IOC_REMOVE_ENCRYPTION_KEY, starts no worker and leaves
\* the filesystem keyring as it was.
C12_ReferenceLengths ==
    /\ [](C12_ReturnedPolicies /\ C12_SpecifierNeedsLength)
    /\ [][C12_BadPolicyEvict]_vars

\* evictKey was given a version-2 policy carrying an 8-byte descriptor, on a
\* mountpoint that opens, and has returned false without any ioctl.
C12_Witness ==
    \E t \in Callers :
        /\ pc[t] = "ret"
        /\ args[t].op = "evictKey"
        /\ args[t].policy.options.version = 2
        /\ args[t].policy.key_raw_ref.size = FSCRYPT_KEY_DESCRIPTOR_SIZE
        /\ OpenOk(args[t].mountpoint)
        /\ syscalls[t] = <<>>
        /\ ret[t] = "false"

C12_InstallWitness ==
    \E t \in Callers :
        /\ pc[t] = "ret" /\ args[t].op = "installKey" /\ ret[t] = "true"
        /\ policy[t].options.version = 2
        /\ policy[t].key_raw_ref.size = FSCRYPT_KEY_IDENTIFIER_SIZE


ReaperKey(r) == <<reaper[r].mountpoint, reaper[r].key_spec>>
ReapersRemoving == {r \in Reapers : reaper[r].pc = "removing"}

\* Between its status query and its remove the worker owns the mutex, no
\* caller is inside installKey or evictKey, and the key is still
\* incompletely removed.
C13_StillIncomplete ==
    \A r \in ReapersRemoving :
        /\ mutex = ReaperOwner(r)
        /\ CallersInside = {}
        /\ ReaperKey(r) \in kIncomplete
        /\ ReaperKey(r) \notin kPresent

\* The worker's remove takes no key out of the present ones.
C13_NeverRemovesPresent ==
    \A r \in ReapersRemoving :
        reaper'[r].pc # "removing" => kPresent' = kPresent

\* C13: with vold as the only user of the keyring, the worker's status query
\* and its FS_IOC_REMOVE_ENCRYPTION_KEY are in one critical section: when the
\* worker is about to issue the remove it owns the mutex, no installKey or
\* evictKey is in progress, the key's status is still incompletely removed,
\* and the remove never takes away a key that is present (re-added by
\* installKey after the eviction).
C13_QueryAndRemoveAtomic ==
    /\ []C13_StillIncomplete
    /\ [][C13_NeverRemovesPresent]_vars

\* A worker has seen INCOMPLETELY_REMOVED and is about to issue its remove.
C13_Witness ==
    \E r \in Reapers :
        /\ reaper[r].pc = "removing"
        /\ ReaperKey(r) \in kIncomplete
        /\ calls = MaxCalls

\* installKey re-added the key while the worker slept; the worker found the
\* status changed and left the key in place.
C13_ReaddedWitness ==
    \E r \in Reapers :
        /\ reaper[r] = ReaperDone("status_changed")
        /\ calls = MaxCalls
        /\ kPresent # {}
        /\ kIncomplete = {}


\* What the remove ioctl of a worker that is about to issue it returns.
ReaperRemoveResult(r) == KernelRemoveKey(reaper[r].mountpoint, reaper[r].key_spec)

\* The step in which worker r issues its remove and the ioctl succeeds.
ReaperRemoveSucceeds(r) ==
    /\ reaper[r].pc = "removing"
    /\ reaper'[r] # reaper[r]
    /\ ReaperRemoveResult(r).errno = "OK"

ReaperContinuesDoubled(r) ==
    /\ reaper'[r].pc = "loop"
    /\ reaper'[r].wait_time = 2 * reaper[r].wait_time
    /\ reaper'[r].slept = reaper[r].slept

\* A worker that has returned does nothing more: its record changes only
\* when evictKey starts a new thread in its place.
ReaperStaysDone(r) ==
    reaper[r].pc = "done" => reaper'[r] = reaper[r] \/ reaper'[r].pc = "start"

\* C14 as stated: after a successful remove the worker stops (cleared)
\* whenever the result carries no files-busy flag, and continues with the
\* doubled delay when it carries the flag.
C14_StopsWithoutBusyFlag ==
    [][\A r \in Reapers :
          ReaperRemoveSucceeds(r) =>
              IF "FILES_BUSY" \notin ReaperRemoveResult(r).flags
              THEN reaper'[r] = ReaperDone("cleared")
              ELSE ReaperContinuesDoubled(r)]_vars

\* C14 amended: after a successful remove the worker stops (cleared), with
\* no later sleep or kernel call, when the result carries neither the
\* files-busy flag nor the other-users flag; when it carries either of them
\* the worker continues to the next attempt with the doubled delay.
C14_StopsWhenNoFlag ==
    [][\A r \in Reapers :
          /\ ReaperRemoveSucceeds(r) =>
                IF ReaperRemoveResult(r).flags \cap {"FILES_BUSY", "OTHER_USERS"} = {}
                THEN reaper'[r] = ReaperDone("cleared")
                ELSE ReaperContinuesDoubled(r)
          /\ ReaperStaysDone(r)]_vars

\* A worker's remove reported OTHER_USERS without FILES_BUSY and the worker
\* has gone on to its second attempt.
C14_Witness ==
    \E r \in Reapers :
        /\ reaper[r].pc = "loop"
        /\ reaper[r].wait_time = 2 * InitialWaitMs
        /\ ReaperKey(r) \in kOthers
        /\ ReaperKey(r) \notin kBusy

C14_ClearedWitness ==
    \E r \in Reapers : reaper[r] = ReaperDone("cleared")

C14_StillBusyWitness ==
    \E r \in Reapers :
        /\ reaper[r].pc = "loop"
        /\ reaper[r].wait_time = 2 * InitialWaitMs
        /\ ReaperKey(r) \in kBusy \ kOthers
        /\ ReaperKey(r) \in kIncomplete


\* The specifier evictKey builds for its policy.
EvictSpec(t) == buildKeySpecifier(args[t].policy).spec

\* The step in which evictKey's FS_IOC_REMOVE_ENCRYPTION_KEY succeeds with the
\* files-busy flag set.
EvictRemoveReportsBusy(t) ==
    /\ pc[t] = "ev_modern"
    /\ pc'[t] = "ret"
    /\ OpenOk(args[t].mountpoint)
    /\ buildKeySpecifier(args[t].policy).ok
    /\ KernelRemoveKey(args[t].mountpoint, EvictSpec(t)).errno = "OK"
    /\ "FILES_BUSY" \in KernelRemoveKey(args[t].mountpoint, EvictSpec(t)).flags

\* C15: in the evictKey step whose FS_IOC_REMOVE_ENCRYPTION_KEY succeeds with
\* the files-busy flag set (the key has left the keyring and is incompletely
\* removed), a worker thread is started with that key specifier, that
\* reference string and that mountpoint, and evictKey returns true.
C15_BusySpawnsReaper ==
    [][\A t \in Callers :
          EvictRemoveReportsBusy(t) =>
              /\ ret'[t] = "true"
              /\ <<args[t].mountpoint, EvictSpec(t)>> \in kIncomplete' \ kPresent'
              /\ \E n \in Reapers :
                    /\ reaper'[n] # reaper[n]
                    /\ reaper'[n] =
                         SpawnedReaper(EvictSpec(t),
                                       keyrefstring(args[t].policy.key_raw_ref),
                                       args[t].mountpoint)]_vars

\* evictKey of a version-2 key has just returned from the remove that
\* reported busy files, and the worker for that identifier is starting.
C15_Witness ==
    \E t \in Callers, n \in Reapers :
        /\ pc[t] = "ret"
        /\ args[t].op = "evictKey"
        /\ syscalls[t] # <<>>
        /\ LastCall(t).call = "remove"
        /\ "FILES_BUSY" \in LastCall(t).flags
        /\ reaper[n].pc = "start"
        /\ reaper[n].key_spec = LastCall(t).spec
        /\ reaper[n].key_spec.type = "IDENTIFIER"
        /\ reaper[n].mountpoint = args[t].mountpoint
        /\ reaper[n].ref = keyrefstring(args[t].policy.key_raw_ref)


\* What the status ioctl of a worker that is about to issue it returns.
ReaperStatusResult(r) == KernelKeyStatus(reaper[r].mountpoint, reaper[r].key_spec)

\* The step in which worker r issues its status query.
ReaperQueries(r) == reaper[r].pc = "locked" /\ reaper'[r] # reaper[r]

\* C16: in the step in which a worker's FS_IOC_GET_ENCRYPTION_KEY_STATUS
\* succeeds with a status other than INCOMPLETELY_REMOVED the worker returns:
\* it issues no remove (the keyring is unchanged), releases the mutex, and
\* from then on neither sleeps nor calls the kernel again.
C16_StatusChangedStops ==
    [][\A r \in Reapers :
          /\ (/\ ReaperQueries(r)
              /\ ReaperStatusResult(r).errno = "OK"
              /\ ReaperStatusResult(r).status # "INCOMPLETELY_REMOVED") =>
                /\ reaper'[r] = ReaperDone("status_changed")
                /\ mutex' = NoOwner
                /\ UNCHANGED modernVars
          /\ reaper[r] = ReaperDone("status_changed") =>
                reaper'[r] = reaper[r] \/ reaper'[r].pc = "start"]_vars

\* A worker found its key present again and returned, after one sleep.
C16_Witness ==
    \E r \in Reapers :
        /\ reaper[r] = ReaperDone("status_changed")
        /\ mutex = NoOwner
        /\ kPresent # {}
        /\ kIncomplete = {}
        /\ calls = MaxCalls

\* A worker found its key absent (a second evictKey completed the removal).
C16_AbsentWitness ==
    \E r \in Reapers :
        /\ reaper[r] = ReaperDone("status_changed")
        /\ kPresent = {}
        /\ kIncomplete = {}
        /\ calls = MaxCalls


ReaperAborted(r) ==
    reaper[r] \in {ReaperDone("status_error"), ReaperDone("remove_error")}

\* C17: the step in which a worker's status query fails, or in which its
\* remove fails, ends the thread: after a failed query no remove is issued
\* (the keyring is unchanged), the mutex is released, no caller's state or
\* return value changes, and the finished worker neither sleeps nor calls
\* the kernel again.
C17_ErrorAborts ==
    [][\A r \in Reapers :
          /\ (ReaperQueries(r) /\ ReaperStatusResult(r).errno # "OK") =>
                /\ reaper'[r] = ReaperDone("status_error")
                /\ mutex' = NoOwner
                /\ UNCHANGED modernVars
                /\ UNCHANGED callerVars
          /\ (/\ reaper[r].pc = "removing"
              /\ reaper'[r] # reaper[r]
              /\ ReaperRemoveResult(r).errno # "OK") =>
                /\ reaper'[r] = ReaperDone("remove_error")
                /\ mutex' = NoOwner
                /\ UNCHANGED modernVars
                /\ UNCHANGED callerVars
          /\ ReaperAborted(r) =>
                reaper'[r] = reaper[r] \/ reaper'[r].pc = "start"]_vars

\* The filesystem went away while a worker slept: its status query failed and
\* the worker returned, leaving the key incompletely removed.
C17_Witness ==
    \E r \in Reapers :
        /\ reaper[r] = ReaperDone("status_error")
        /\ mutex = NoOwner
        /\ fsDown # {}
        /\ kIncomplete # {}

\* The filesystem went away between a worker's query and its remove.
C17_RemoveErrorWitness ==
    \E r \in Reapers :
        /\ reaper[r] = ReaperDone("remove_error")
        /\ mutex = NoOwner


ReaperOutcomes ==
    {"status_changed", "cleared", "open_failed", "status_error",
     "remove_error", "never_completed"}

\* A finished worker ended in one of the ways of waitForBusyFiles, and one
\* that gave up had slept all five delays.
C18_Exits ==
    \A r \in Reapers :
        reaper[r].pc = "done" => reaper[r].outcome \in ReaperOutcomes

\* Only the worker's own steps change a live worker: nothing cancels it.
C18_NoCancel ==
    \A r \in ReapersAlive :
        reaper'[r] # reaper[r] =>
            /\ UNCHANGED callerVars
            /\ reaper'[r].pc # "free"
            /\ reaper'[r].pc = "done" =>
                \/ reaper[r].pc = "start" /\ reaper'[r].outcome = "open_failed"
                \/ reaper[r].pc = "loop" /\ reaper'[r].outcome = "never_completed"
                      /\ reaper[r].slept = Backoff
                \/ reaper[r].pc = "locked"
                      /\ reaper'[r].outcome \in {"status_changed", "status_error"}
                \/ reaper[r].pc = "removing"
                      /\ reaper'[r].outcome \in {"cleared", "remove_error"}

\* C18: under fair scheduling every started worker eventually returns; it
\* returns because the status is no longer INCOMPLETELY_REMOVED, because a
\* remove cleared the key, because a kernel call (open or ioctl) failed, or
\* with the "never completed" diagnostic once its five delays are used up;
\* there is no other exit and no step of another thread ends it.
C18_ReaperTerminates ==
    /\ []C18_Exits
    /\ [][C18_NoCancel]_vars
    /\ \A r \in Reapers : (reaper[r].pc \notin {"free", "done"}) ~> (reaper[r].pc = "done")

\* A worker used up its five delays and gave up.
C18_Witness ==
    \E r \in Reapers :
        /\ reaper[r] = ReaperDone("never_completed")
        /\ kIncomplete # {}
        /\ kBusy # {}


KeyringOps == {"installKey", "evictKey"}
LegacyCalls == {"keyctl_search", "add_key", "keyctl_unlink"}
ModernCalls == {"add", "remove"}

\* The policy version of the installKey or evictKey that t is in.
CallVersion(t) ==
    IF args[t].op = "installKey" THEN args[t].options.version
    ELSE args[t].policy.options.version

UsedLegacy(t) == \E i \in 1..Len(syscalls[t]) : syscalls[t][i].call \in LegacyCalls
UsedModern(t) == \E i \in 1..Len(syscalls[t]) : syscalls[t][i].call \in ModernCalls

\* Which adapter a returning call went through, from the version and from
\* what isFsKeyringSupported() told it; the same for installKey and evictKey.
C19_AdapterByVersion ==
    \A t \in Callers :
        (pc[t] = "ret" /\ args[t].op \in KeyringOps) =>
            /\ UsedLegacy(t) => CallVersion(t) = 1 /\ cap[t] = "false"
            /\ (CallVersion(t) = 1 /\ cap[t] = "false") =>
                  /\ ~UsedModern(t)
                  /\ UsedLegacy(t)
                        \/ (args[t].op = "installKey" /\ ~fillKey(args[t].key))
            /\ UsedModern(t) =>
                  \/ CallVersion(t) = 2
                  \/ CallVersion(t) = 1 /\ cap[t] = "true"
            /\ CallVersion(t) # 1 => cap[t] = "none" /\ ~UsedLegacy(t)

\* The legacy keyring changes only in a step of a version-1 call that was
\* told the ioctls are not supported.
C19_LegacyOnlyV1 ==
    legacyKeys' # legacyKeys =>
        \E t \in Callers :
            /\ pc[t] \in {"inst_v1", "ev_v1"}
            /\ CallVersion(t) = 1
            /\ cap[t] = "false"
            /\ pc'[t] = "ret"

\* C19: installKey and evictKey go through the session-keyring functions
\* exactly when the policy version is 1 and isFsKeyringSupported() returned
\* false, by the same test in both; a version-2 call never asks for the
\* capability, makes no session-keyring call and never changes the session
\* keyring, whatever the kernel supports.
C19_AdapterChoice ==
    /\ []C19_AdapterByVersion
    /\ [][C19_LegacyOnlyV1]_vars

\* A version-1 evictKey on a kernel without the ioctls has unlinked, through
\* the session keyring, the three names a version-1 installKey had added.
C19_Witness ==
    \E t \in Callers :
        /\ pc[t] = "ret"
        /\ args[t].op = "evictKey"
        /\ CallVersion(t) = 1
        /\ cap[t] = "false"
        /\ UsedLegacy(t)
        /\ Len(SelectSeq(syscalls[t], UnlinkCall)) = Len(NAME_PREFIXES)
        /\ ret[t] = "true"
        /\ legacyKeys = {}

\* A version-2 installKey on a kernel without the ioctls failed with ENOTTY
\* and did not fall back to the session keyring.
C19_NoFallbackWitness ==
    \E t \in Callers :
        /\ pc[t] = "ret"
        /\ args[t].op = "installKey"
        /\ CallVersion(t) = 2
        /\ ~kernelModern
        /\ syscalls[t] # <<>>
        /\ LastCall(t).call = "add"
        /\ LastCall(t).errno = "ENOTTY"
        /\ ret[t] = "false"
        /\ legacyKeys = {}


\* A caller waits for the initializer of the static of isFsKeyringSupported,
\* which another thread is running and can finish (it needs no mutex).
AwaitsProbe(t) ==
    /\ pc[t] \in CapPcs
    /\ guard = "running"
    /\ \E u \in Callers \ {t} : pc[u] \in ProbePcs /\ ENABLED ProbeFinish(u)

\* The mutex is owned only by a thread that is inside its critical section,
\* and that thread can take its next step, or waits for a static initializer
\* that can: no owner is stuck, and a thread that has returned (on any path)
\* or finished its attempt owns nothing.
C20_OwnerRuns ==
    /\ \A t \in Callers :
          IF t \in CallersInside
          THEN mutex = t /\ (ENABLED CallerRuns(t) \/ AwaitsProbe(t))
          ELSE mutex # t
    /\ \A r \in Reapers :
          IF r \in ReapersInside
          THEN mutex = ReaperOwner(r) /\ ENABLED ReaperStep(r)
          ELSE mutex # ReaperOwner(r)

\* Each return of installKey or evictKey, with true or with false, and each
\* end of a worker's attempt leaves the mutex free.
C20_ReleasedOnExit ==
    /\ \A t \in Callers :
          (pc[t] = "ret" /\ pc'[t] = "idle") => mutex' = NoOwner
    /\ \A r \in Reapers :
          (reaper[r].pc \in {"locked", "removing"}
              /\ reaper'[r].pc \notin {"locked", "removing"}) => mutex' = NoOwner

\* C20: no interleaving of installKey, evictKey and the workers deadlocks:
\* the owner of the mutex can always run, every return path of installKey
\* and evictKey (also the one after a worker was started) and every end of a
\* worker's attempt releases the mutex, and under fair scheduling a held
\* mutex is always released again and a worker waiting for it gets it.
C20_NoDeadlock ==
    /\ []C20_OwnerRuns
    /\ [][C20_ReleasedOnExit]_vars
    /\ (mutex # NoOwner) ~> (mutex = NoOwner)
    /\ \A r \in Reapers :
          (reaper[r].pc = "sleeping") ~> (reaper[r].pc \in {"locked", "removing", "loop", "done"})

\* A worker is waiting for the mutex while evictKey, which started it, still
\* holds the mutex on its way out.
C20_Witness ==
    \E r \in Reapers, t \in Callers :
        /\ reaper[r].pc = "sleeping"
        /\ mutex = t
        /\ pc[t] = "ret"
        /\ args[t].op = "evictKey"
        /\ ret[t] = "false"
        /\ \E u \in Callers \ {t} : pc[u] = "idle"

====
